---------------------------- MODULE Spec2Model ----------------------------
(***************************************************************************)
(* A model of pymysqlreplication/event.py: the binlog event classes, their *)
(* payload decoding (the constructors) and their dump.                     *)
(*                                                                         *)
(* The source is Python 2 code (GtidEvent.gtid applies ord() to the        *)
(* elements of a byte string): str is the byte string type, unicode the    *)
(* text type, and bytes.decode(x) with no codec is the ASCII codec.        *)
(*                                                                         *)
(* Representation.  A byte string is a sequence of 0..255, a text a        *)
(* sequence of code points.  An integer value is kept as its base-256      *)
(* digits, least significant first, without high zero digits (Num), so     *)
(* that a 64-bit value does not leave the checker's integer range.         *)
(* A Python value is a record [k |-> kind, v |-> payload] with kind        *)
(* "int", "bool", "str", "unicode", "dict", "list" or "none".             *)
(***************************************************************************)
EXTENDS Integers, Sequences, FiniteSets, TLC

VARIABLES packet, kwargs, events, decodes, last

vars == <<packet, kwargs, events, decodes, last>>

(***************************************************************************)
(* Bounds of the model.                                                    *)
(***************************************************************************)
\* the number of constructor calls made on one packet
MaxDecodes == 2

(***************************************************************************)
(* Integers.                                                               *)
(***************************************************************************)
RECURSIVE StripHigh(_)
StripHigh(ds) ==
    IF ds = <<>> THEN <<>>
    ELSE IF ds[Len(ds)] = 0 THEN StripHigh(SubSeq(ds, 1, Len(ds) - 1))
    ELSE ds

RECURSIVE Num(_)
Num(n) == IF n = 0 THEN <<>> ELSE <<n % 256>> \o Num(n \div 256)

\* struct.unpack('<Q', b)[0] / read_uint32: the little-endian unsigned value
unpack_le(b) == StripHigh(b)

\* a little-endian value that is used in arithmetic (one or two bytes)
RECURSIVE le_int(_)
le_int(b) == IF b = <<>> THEN 0 ELSE b[1] + 256 * le_int(Tail(b))

byte2int(b) == b[1]

IntVal(n) == [k |-> "int", v |-> Num(n)]
LongVal(ds) == [k |-> "int", v |-> ds]
BoolVal(b) == [k |-> "bool", v |-> b]
StrVal(s) == [k |-> "str", v |-> s]
UnicodeVal(s) == [k |-> "unicode", v |-> s]

\* one step of the division of a big-endian digit string by 10:
\* <<quotient digits (big-endian), remainder>>
RECURSIVE DivTen(_, _)
DivTen(be, carry) ==
    IF be = <<>> THEN [q |-> <<>>, r |-> carry]
    ELSE LET cur == carry * 256 + be[1]
             rest == DivTen(Tail(be), cur % 10)
         IN [q |-> <<cur \div 10>> \o rest.q, r |-> rest.r]

Reverse(s) == [i \in 1..Len(s) |-> s[Len(s) + 1 - i]]

\* "%d" % n : the decimal digits of n as characters
RECURSIVE DecimalOf(_)
DecimalOf(ds) ==
    IF ds = <<>> THEN <<48>>
    ELSE LET d == DivTen(Reverse(ds), 0)
             q == StripHigh(Reverse(d.q))
         IN IF q = <<>> THEN <<48 + d.r>>
            ELSE DecimalOf(q) \o <<48 + d.r>>

\* "{0:02x}".format(b) : two lowercase hex digits
HexChar(d) == IF d < 10 THEN 48 + d ELSE 97 + (d - 10)
Hex02(b) == <<HexChar(b \div 16), HexChar(b % 16)>>

(***************************************************************************)
(* Text codecs.                                                            *)
(***************************************************************************)
IsCont(b) == b >= 128 /\ b <= 191

\* the UTF-8 codec: [ok, text]
RECURSIVE Utf8Decode(_)
Utf8Decode(b) ==
    IF b = <<>> THEN [ok |-> TRUE, text |-> <<>>]
    ELSE
      LET b1 == b[1]
          n == IF b1 < 128 THEN 1
               ELSE IF b1 >= 194 /\ b1 <= 223 THEN 2
               ELSE IF b1 >= 224 /\ b1 <= 239 THEN 3
               ELSE IF b1 >= 240 /\ b1 <= 244 THEN 4
               ELSE 0
          wellFormed ==
               /\ n > 0
               /\ Len(b) >= n
               /\ \A i \in 2..n : IsCont(b[i])
               /\ (b1 = 224 => b[2] >= 160)
               /\ (b1 = 240 => b[2] >= 144)
               /\ (b1 = 244 => b[2] <= 143)
          cp == IF n = 1 THEN b1
                ELSE IF n = 2 THEN (b1 - 192) * 64 + (b[2] - 128)
                ELSE IF n = 3 THEN (b1 - 224) * 4096 + (b[2] - 128) * 64
                                   + (b[3] - 128)
                ELSE (b1 - 240) * 262144 + (b[2] - 128) * 4096
                     + (b[3] - 128) * 64 + (b[4] - 128)
      IN IF ~wellFormed THEN [ok |-> FALSE, text |-> <<>>]
         ELSE LET rest == Utf8Decode(SubSeq(b, n + 1, Len(b)))
              IN IF rest.ok THEN [ok |-> TRUE, text |-> <<cp>> \o rest.text]
                 ELSE rest

\* the default (ASCII) codec: [ok, text]
AsciiDecode(b) ==
    IF \A i \in 1..Len(b) : b[i] < 128
    THEN [ok |-> TRUE, text |-> b]
    ELSE [ok |-> FALSE, text |-> <<>>]

\* bytes.decode(x): [ok, val].  Only a str has the method's receiver type;
\* anything else is a TypeError.
bytes_decode(x) ==
    IF x.k = "str"
    THEN LET d == AsciiDecode(x.v)
         IN [ok |-> d.ok, val |-> UnicodeVal(d.text)]
    ELSE [ok |-> FALSE, val |-> x]

(***************************************************************************)
(* Dictionaries.                                                           *)
(***************************************************************************)
EmptyDict == [x \in {} |-> BoolVal(FALSE)]

\* d[key] = val
SetItem(d, key, val) == (key :> val) @@ d

\* d.update(h)
Update(d, h) == h @@ d

\* iter_bytes_to_string(hash): every value that is not a dict is replaced by
\* its decoding when that succeeds and left alone when it fails; a dict
\* value is converted in place, recursively.
RECURSIVE iter_bytes_to_string(_)
iter_bytes_to_string(hash) ==
    [key \in DOMAIN hash |->
        IF hash[key].k # "dict"
        THEN LET d == bytes_decode(hash[key])
             IN IF d.ok THEN d.val ELSE hash[key]
        ELSE [k |-> "dict", v |-> iter_bytes_to_string(hash[key].v)]]

(***************************************************************************)
(* The packet cursor (from_packet).  A packet is                           *)
(* [data, read_bytes, event_type, timestamp, log_pos, flags]: the buffer,  *)
(* the number of bytes consumed so far (the read offset) and the header    *)
(* fields the framing layer parsed.  A run of cursor calls is              *)
(* [pkt, log, err, out]: the packet, the calls issued so far, the error    *)
(* raised ("none" while there is none) and the bytes of the last read.     *)
(* Once a call has raised, the calls after it are not issued.              *)
(***************************************************************************)
Start(pkt) == [pkt |-> pkt, log |-> <<>>, err |-> "none", out |-> <<>>]

Call(c, op, size) ==
    IF c.err # "none" THEN c
    ELSE LET at == c.pkt.read_bytes
             c1 == [c EXCEPT !.log = Append(@, [op |-> op, size |-> size,
                                                at |-> at])]
         IN IF size < 0 \/ at + size > Len(c.pkt.data)
            THEN [c1 EXCEPT !.err = "CursorError"]
            ELSE [c1 EXCEPT !.pkt.read_bytes = at + size,
                            !.out = SubSeq(c.pkt.data, at + 1, at + size)]

read(c, size) == Call(c, "read", size)
advance(c, size) == Call(c, "advance", size)
read_uint16(c) == Call(c, "read_uint16", 2)
read_uint32(c) == Call(c, "read_uint32", 4)

(***************************************************************************)
(* The event classes.  An event is                                         *)
(* [cls, event_type, timestamp, event_size, log_pos, processed, hashes,    *)
(*  hasPriv, priv, attrs]: priv is the class's own __hashes dictionary     *)
(* (hasPriv: the constructor created one), attrs the attributes the        *)
(* class's constructor sets.  self.packet is a reference to the packet:    *)
(* the event's methods read the packet as it is when they run.             *)
(***************************************************************************)
Classes == {"GtidEvent", "RotateEvent", "FormatDescriptionEvent", "StopEvent",
            "XidEvent", "QueryEvent", "NotImplementedEvent"}

\* self.__class__.__name__ as a str
ClassName(cls) ==
    CASE cls = "GtidEvent" -> <<71, 116, 105, 100, 69, 118, 101, 110, 116>>
      [] cls = "RotateEvent" ->
             <<82, 111, 116, 97, 116, 101, 69, 118, 101, 110, 116>>
      [] cls = "FormatDescriptionEvent" ->
             <<70, 111, 114, 109, 97, 116, 68, 101, 115, 99, 114, 105, 112,
               116, 105, 111, 110, 69, 118, 101, 110, 116>>
      [] cls = "StopEvent" -> <<83, 116, 111, 112, 69, 118, 101, 110, 116>>
      [] cls = "XidEvent" -> <<88, 105, 100, 69, 118, 101, 110, 116>>
      [] cls = "QueryEvent" ->
             <<81, 117, 101, 114, 121, 69, 118, 101, 110, 116>>
      [] OTHER -> <<78, 111, 116, 73, 109, 112, 108, 101, 109, 101, 110, 116,
                    101, 100, 69, 118, 101, 110, 116>>

BinLogEvent__init__(cls, pkt, event_size) ==
    [cls |-> cls,
     event_type |-> pkt.event_type,
     timestamp |-> pkt.timestamp,
     event_size |-> event_size,
     log_pos |-> pkt.log_pos,
     processed |-> TRUE,
     hashes |-> EmptyDict,
     hasPriv |-> FALSE,
     priv |-> EmptyDict,
     attrs |-> EmptyDict]

\* what a constructor call comes to: the cursor run, whether an event was
\* built (the exception raised when not), and the event
Built(c, ev) == [c |-> c, ok |-> TRUE, err |-> "none", ev |-> ev]
Raised(c, err, ev) == [c |-> c, ok |-> FALSE, err |-> err, ev |-> ev]

GtidEvent__init__(pkt, event_size, kw) ==
    LET base == BinLogEvent__init__("GtidEvent", pkt, event_size)
        c1 == read(Start(pkt), 1)
        c2 == read(c1, 16)
        c3 == read(c2, 8)
    IN IF c3.err # "none" THEN Raised(c3, c3.err, base)
       ELSE Built(c3, [base EXCEPT
                !.attrs = ("commit_flag" :> BoolVal(byte2int(c1.out) = 1))
                          @@ ("sid" :> StrVal(c2.out))
                          @@ ("gno" :> LongVal(unpack_le(c3.out))),
                !.hasPriv = TRUE])

\* RotateEvent.__init__ reading event_size bytes of name
RotateEvent__init__whole(pkt, event_size, kw) ==
    LET base == BinLogEvent__init__("RotateEvent", pkt, event_size)
        c1 == read(Start(pkt), 8)
        c2 == read(c1, event_size)
        name == AsciiDecode(c2.out)
    IN IF c2.err # "none" THEN Raised(c2, c2.err, base)
       ELSE IF ~name.ok THEN Raised(c2, "UnicodeDecodeError", base)
       ELSE Built(c2, [base EXCEPT
                !.attrs = ("position" :> LongVal(unpack_le(c1.out)))
                          @@ ("next_binlog" :> UnicodeVal(name.text)),
                !.hasPriv = TRUE])

RotateEvent__init__(pkt, event_size, kw) ==
    LET base == BinLogEvent__init__("RotateEvent", pkt, event_size)
        c1 == read(Start(pkt), 8)
        c2 == read(c1, event_size - 8)
        name == AsciiDecode(c2.out)
    IN IF c2.err # "none" THEN Raised(c2, c2.err, base)
       ELSE IF ~name.ok THEN Raised(c2, "UnicodeDecodeError", base)
       ELSE Built(c2, [base EXCEPT
                !.attrs = ("position" :> LongVal(unpack_le(c1.out)))
                          @@ ("next_binlog" :> UnicodeVal(name.text)),
                !.hasPriv = TRUE])

FormatDescriptionEvent__init__(pkt, event_size, kw) ==
    Built(Start(pkt), BinLogEvent__init__("FormatDescriptionEvent", pkt,
                                          event_size))

StopEvent__init__(pkt, event_size, kw) ==
    Built(Start(pkt), BinLogEvent__init__("StopEvent", pkt, event_size))

\* XidEvent.__init__ looking only_schemas up after the read
XidEvent__init__late(pkt, event_size, kw) ==
    LET base == BinLogEvent__init__("XidEvent", pkt, event_size)
        c1 == read(Start(pkt), 8)
    IN IF c1.err # "none" THEN Raised(c1, c1.err, base)
       ELSE IF "only_schemas" \notin DOMAIN kw
       THEN Raised(c1, "KeyError", base)
       ELSE Built(c1, [base EXCEPT
                !.attrs = ("__only_schemas" :> kw["only_schemas"])
                          @@ ("xid" :> LongVal(unpack_le(c1.out))),
                !.hasPriv = TRUE])

XidEvent__init__(pkt, event_size, kw) ==
    LET base == BinLogEvent__init__("XidEvent", pkt, event_size)
        c1 == read(Start(pkt), 8)
    IN IF "only_schemas" \notin DOMAIN kw
       THEN Raised(Start(pkt), "KeyError", base)
       ELSE IF c1.err # "none" THEN Raised(c1, c1.err, base)
       ELSE Built(c1, [base EXCEPT
                !.attrs = ("__only_schemas" :> kw["only_schemas"])
                          @@ ("xid" :> LongVal(unpack_le(c1.out))),
                !.hasPriv = TRUE])

\* QueryEvent.__init__ without the padding byte in the query's length
QueryEvent__init__nopad(pkt, event_size, kw) ==
    LET base == BinLogEvent__init__("QueryEvent", pkt, event_size)
        c1 == read_uint32(Start(pkt))
        c2 == read_uint32(c1)
        c3 == read(c2, 1)
        schema_length == byte2int(c3.out)
        c4 == read_uint16(c3)
        c5 == read_uint16(c4)
        status_vars_length == le_int(c5.out)
        c6 == read(c5, status_vars_length)
        c7 == read(c6, schema_length)
        c8 == advance(c7, 1)
        c9 == read(c8, event_size - 13 - status_vars_length - schema_length)
        query == Utf8Decode(c9.out)
    IN IF "only_schemas" \notin DOMAIN kw
       THEN Raised(Start(pkt), "KeyError", base)
       ELSE IF c9.err # "none" THEN Raised(c9, c9.err, base)
       ELSE IF ~query.ok THEN Raised(c9, "UnicodeDecodeError", base)
       ELSE Built(c9, [base EXCEPT
                !.attrs = ("__only_schemas" :> kw["only_schemas"])
                          @@ ("slave_proxy_id" :> LongVal(unpack_le(c1.out)))
                          @@ ("execution_time" :> LongVal(unpack_le(c2.out)))
                          @@ ("schema_length" :> IntVal(schema_length))
                          @@ ("error_code" :> IntVal(le_int(c4.out)))
                          @@ ("status_vars_length" :>
                                  IntVal(status_vars_length))
                          @@ ("status_vars" :> StrVal(c6.out))
                          @@ ("schema" :> StrVal(c7.out))
                          @@ ("query" :> UnicodeVal(query.text)),
                !.hasPriv = TRUE])

QueryEvent__init__(pkt, event_size, kw) ==
    LET base == BinLogEvent__init__("QueryEvent", pkt, event_size)
        c1 == read_uint32(Start(pkt))
        c2 == read_uint32(c1)
        c3 == read(c2, 1)
        schema_length == byte2int(c3.out)
        c4 == read_uint16(c3)
        c5 == read_uint16(c4)
        status_vars_length == le_int(c5.out)
        c6 == read(c5, status_vars_length)
        c7 == read(c6, schema_length)
        c8 == advance(c7, 1)
        c9 == read(c8, event_size - 13 - status_vars_length
                       - schema_length - 1)
        query == Utf8Decode(c9.out)
    IN IF "only_schemas" \notin DOMAIN kw
       THEN Raised(Start(pkt), "KeyError", base)
       ELSE IF c9.err # "none" THEN Raised(c9, c9.err, base)
       ELSE IF ~query.ok THEN Raised(c9, "UnicodeDecodeError", base)
       ELSE Built(c9, [base EXCEPT
                !.attrs = ("__only_schemas" :> kw["only_schemas"])
                          @@ ("slave_proxy_id" :> LongVal(unpack_le(c1.out)))
                          @@ ("execution_time" :> LongVal(unpack_le(c2.out)))
                          @@ ("schema_length" :> IntVal(schema_length))
                          @@ ("error_code" :> IntVal(le_int(c4.out)))
                          @@ ("status_vars_length" :>
                                  IntVal(status_vars_length))
                          @@ ("status_vars" :> StrVal(c6.out))
                          @@ ("schema" :> StrVal(c7.out))
                          @@ ("query" :> UnicodeVal(query.text)),
                !.hasPriv = TRUE])

NotImplementedEvent__init__(pkt, event_size, kw) ==
    LET base == BinLogEvent__init__("NotImplementedEvent", pkt, event_size)
        c1 == advance(Start(pkt), event_size)
    IN IF c1.err # "none" THEN Raised(c1, c1.err, base)
       ELSE Built(c1, base)

\* the constructor of class cls
Construct(cls, pkt, event_size, kw) ==
    CASE cls = "GtidEvent" -> GtidEvent__init__(pkt, event_size, kw)
      [] cls = "RotateEvent" -> RotateEvent__init__(pkt, event_size, kw)
      [] cls = "FormatDescriptionEvent" ->
             FormatDescriptionEvent__init__(pkt, event_size, kw)
      [] cls = "StopEvent" -> StopEvent__init__(pkt, event_size, kw)
      [] cls = "XidEvent" -> XidEvent__init__(pkt, event_size, kw)
      [] cls = "QueryEvent" -> QueryEvent__init__(pkt, event_size, kw)
      [] OTHER -> NotImplementedEvent__init__(pkt, event_size, kw)

(***************************************************************************)
(* dump.                                                                   *)
(***************************************************************************)
\* gtid with the hex digits in upper case ("{0:02X}")
gtid_upper(ev) ==
    LET sid == ev.attrs["sid"].v
        up(c) == IF c >= 97 THEN c - 32 ELSE c
        h(i) == <<up(Hex02(sid[i])[1]), up(Hex02(sid[i])[2])>>
    IN h(1) \o h(2) \o h(3) \o h(4) \o <<45>> \o h(5) \o h(6) \o <<45>>
       \o h(7) \o h(8) \o <<45>> \o h(9) \o h(10) \o <<45>>
       \o h(11) \o h(12) \o h(13) \o h(14) \o h(15) \o h(16)
       \o <<58>> \o DecimalOf(ev.attrs["gno"].v)

\* GtidEvent.gtid: the sixteen bytes of sid as hex pairs in the pattern
\* 4-2-2-2-6, then ":" and the decimal gno
gtid(ev) ==
    LET sid == ev.attrs["sid"].v
        h(i) == Hex02(sid[i])
    IN h(1) \o h(2) \o h(3) \o h(4) \o <<45>> \o h(5) \o h(6) \o <<45>>
       \o h(7) \o h(8) \o <<45>> \o h(9) \o h(10) \o <<45>>
       \o h(11) \o h(12) \o h(13) \o h(14) \o h(15) \o h(16)
       \o <<58>> \o DecimalOf(ev.attrs["gno"].v)

\* what a method call comes to: the event after it, whether it returned
\* (the exception raised when not), whether it returned None, the mapping
Returned(ev, h) ==
    [ev |-> ev, ok |-> TRUE, err |-> "none", none |-> FALSE, h |-> h]
ReturnedNone(ev) ==
    [ev |-> ev, ok |-> TRUE, err |-> "none", none |-> TRUE, h |-> EmptyDict]
MethodRaised(ev, err) ==
    [ev |-> ev, ok |-> FALSE, err |-> err, none |-> TRUE, h |-> EmptyDict]

\* BinLogEvent._dump
BinLogEvent_dump_hook(ev) == ReturnedNone(ev)

GtidEvent_dump_hook(ev) ==
    LET p1 == SetItem(ev.priv, "commit_flag", ev.attrs["commit_flag"])
        p2 == SetItem(p1, "gtid", StrVal(gtid(ev)))
    IN Returned([ev EXCEPT !.priv = p2], p2)

XidEvent_dump_hook(ev) ==
    LET p1 == SetItem(ev.priv, "xid", ev.attrs["xid"])
    IN Returned([ev EXCEPT !.priv = p1], p1)

\* QueryEvent._dump keeping the decoded schema in self.schema
QueryEvent_dump_hook_store(ev) ==
    LET schema == bytes_decode(ev.attrs["schema"])
        p1 == SetItem(ev.priv, "schema", schema.val)
        p2 == SetItem(p1, "execution_time", ev.attrs["execution_time"])
        p3 == SetItem(p2, "query", ev.attrs["query"])
    IN IF ~schema.ok THEN MethodRaised(ev, "UnicodeDecodeError")
       ELSE Returned([ev EXCEPT !.priv = p3,
                                !.attrs = ("schema" :> schema.val) @@ @], p3)

QueryEvent_dump_hook(ev) ==
    LET schema == bytes_decode(ev.attrs["schema"])
        p1 == SetItem(ev.priv, "schema", schema.val)
        p2 == SetItem(p1, "execution_time", ev.attrs["execution_time"])
        p3 == SetItem(p2, "query", ev.attrs["query"])
    IN IF ~schema.ok THEN MethodRaised(ev, "UnicodeDecodeError")
       ELSE Returned([ev EXCEPT !.priv = p3], p3)

\* self._dump()
dump_hook(ev) ==
    CASE ev.cls = "GtidEvent" -> GtidEvent_dump_hook(ev)
      [] ev.cls = "XidEvent" -> XidEvent_dump_hook(ev)
      [] ev.cls = "QueryEvent" -> QueryEvent_dump_hook(ev)
      [] OTHER -> BinLogEvent_dump_hook(ev)

\* BinLogEvent.dump, with the packet as it is at the call
BinLogEvent_dump(ev, pkt) ==
    LET h1 == SetItem(ev.hashes, "class", StrVal(ClassName(ev.cls)))
        h2 == SetItem(h1, "timestamp", IntVal(ev.timestamp))
        h3 == SetItem(h2, "log_pos", IntVal(pkt.log_pos))
        h4 == SetItem(h3, "event_size", IntVal(ev.event_size))
        h5 == SetItem(h4, "read_bytes", IntVal(pkt.read_bytes))
        h6 == SetItem(h5, "flags", IntVal(pkt.flags))
        d == dump_hook([ev EXCEPT !.hashes = h6])
        h7 == IF d.none \/ d.h = EmptyDict THEN h6 ELSE Update(h6, d.h)
        h8 == iter_bytes_to_string(h7)
    IN IF ~d.ok THEN MethodRaised(d.ev, d.err)
       ELSE Returned([d.ev EXCEPT !.hashes = h8], h8)

\* RotateEvent.dump with the envelope's read_bytes and flags added
RotateEvent_dump_envelope(ev, pkt) ==
    LET p1 == SetItem(ev.priv, "class", StrVal(ClassName(ev.cls)))
        p2 == SetItem(p1, "position", ev.attrs["position"])
        p3 == SetItem(p2, "next_binlog", ev.attrs["next_binlog"])
        p4 == SetItem(p3, "timestamp", IntVal(ev.timestamp))
        p5 == SetItem(p4, "read_bytes", IntVal(pkt.read_bytes))
        p6 == SetItem(p5, "flags", IntVal(pkt.flags))
    IN Returned([ev EXCEPT !.priv = p6], p6)

RotateEvent_dump(ev, pkt) ==
    LET p1 == SetItem(ev.priv, "class", StrVal(ClassName(ev.cls)))
        p2 == SetItem(p1, "position", ev.attrs["position"])
        p3 == SetItem(p2, "next_binlog", ev.attrs["next_binlog"])
        p4 == SetItem(p3, "timestamp", IntVal(ev.timestamp))
    IN Returned([ev EXCEPT !.priv = p4], p4)

\* ev.dump()
dump(ev, pkt) ==
    IF ev.cls = "RotateEvent" THEN RotateEvent_dump(ev, pkt)
    ELSE BinLogEvent_dump(ev, pkt)

(***************************************************************************)
(* Inputs: the packets handed to the constructors, the keyword arguments   *)
(* of the caller, and the event sizes declared for an event.               *)
(***************************************************************************)
None == [k |-> "none", v |-> <<>>]
ListVal(l) == [k |-> "list", v |-> l]

\* the 8 little-endian bytes of a small number
Le8(n) == <<n % 256, (n \div 256) % 256, 0, 0, 0, 0, 0, 0>>
Le4(n) == <<n % 256, (n \div 256) % 256, 0, 0>>
Le2(n) == <<n % 256, (n \div 256) % 256>>

\* 3e11fa47-71ca-11e1-9e33-c80aa9429562
Sid1 == <<62, 17, 250, 71, 113, 202, 17, 225, 158, 51, 200, 10, 169, 66,
          149, 98>>
Sid2 == <<0, 255, 9, 10, 15, 16, 159, 160, 171, 205, 239, 1, 35, 69, 103, 137>>
MaxGno == <<255, 255, 255, 255, 255, 255, 255, 255>>

\* "mysql-bin.000002"
BinlogName == <<109, 121, 115, 113, 108, 45, 98, 105, 110, 46, 48, 48, 48,
                48, 48, 50>>
\* "test"
SchemaTest == <<116, 101, 115, 116>>
\* "DROP TABLE t"
DropTable == <<68, 82, 79, 80, 32, 84, 65, 66, 76, 69, 32, 116>>

QueryPayload(thread, time, status, schema, query) ==
    Le4(thread) \o Le4(time) \o <<Len(schema)>> \o Le2(0)
    \o Le2(Len(status)) \o status \o schema \o <<0>> \o query

Buffers ==
    { <<1>> \o Sid1 \o Le8(23) \o Le8(42),
      <<0>> \o Sid2 \o MaxGno \o <<7>>,
      Le8(4) \o BinlogName,
      QueryPayload(1, 5, <<>>, SchemaTest, DropTable),
      QueryPayload(2, 0, <<0, 1>>, <<255>>, <<97>>),
      QueryPayload(3, 258, <<>>, <<195, 169>>, <<195, 169, 226, 130, 172>>),
      QueryPayload(3, 1, <<>>, <<>>, <<195>>),
      Le8(42) \o Le8(65535) }

\* the header fields the framing layer parsed, taken from the buffer's length
\* so that they differ between packets
Packets ==
    { [data |-> b, read_bytes |-> 0, event_type |-> Len(b) % 5,
       timestamp |-> 1000 + Len(b), log_pos |-> 4 + 100 * (Len(b) % 3),
       flags |-> Len(b) % 2] :
      b \in Buffers }

OnlySchemasValues == {None, ListVal(<<SchemaTest>>)}

KwargsSet ==
    {EmptyDict} \cup {("only_schemas" :> v) : v \in OnlySchemasValues}

\* the number of payload bytes the class's layout fixes
FixedSize(cls) ==
    CASE cls = "GtidEvent" -> 25
      [] cls = "RotateEvent" -> 8
      [] cls = "XidEvent" -> 8
      [] cls = "QueryEvent" -> 14
      [] OTHER -> 0

\* the event sizes declared for an event of class cls: the whole of what is
\* left in the buffer, the fixed size of the layout and, for the classes
\* that take a length from event_size, one byte less than that
EventSizes(cls, pkt) ==
    {Len(pkt.data) - pkt.read_bytes}
    \cup (IF FixedSize(cls) > 0 THEN {FixedSize(cls)} ELSE {})
    \cup (IF cls \in {"RotateEvent", "QueryEvent"}
          THEN {FixedSize(cls) - 1} ELSE {})

(***************************************************************************)
(* The state machine.  events are the events built so far, last the last   *)
(* call: a constructor ("decode", decodes counts them) with its class, event size, offset at    *)
(* the start, outcome and cursor calls, or a dump of events[idx] with its  *)
(* outcome and the mapping returned (again: the call before it was a dump   *)
(* of the same event).  A constructor that raises ends the work on the     *)
(* packet: no further event is built from it.                              *)
(***************************************************************************)
Init ==
    /\ packet \in Packets
    /\ kwargs \in KwargsSet
    /\ events = <<>>
    /\ decodes = 0
    /\ last = [op |-> "init", cls |-> "none", event_size |-> 0, start |-> 0,
               status |-> "none", log |-> <<>>, idx |-> 0,
               again |-> FALSE, result |-> EmptyDict]

CanDecode == decodes < MaxDecodes /\ decodes = Len(events)

Decode(cls) ==
    /\ decodes' = decodes + 1
    /\ \E event_size \in EventSizes(cls, packet) :
         LET r == Construct(cls, packet, event_size, kwargs)
         IN /\ packet' = r.c.pkt
            /\ events' = IF r.ok THEN Append(events, r.ev) ELSE events
            /\ last' = [op |-> "decode", cls |-> cls,
                        event_size |-> event_size,
                        start |-> packet.read_bytes,
                        status |-> IF r.ok THEN "ok" ELSE r.err,
                        log |-> r.c.log,
                        idx |-> IF r.ok THEN Len(events) + 1 ELSE 0,
                        again |-> FALSE, result |-> EmptyDict]
    /\ UNCHANGED kwargs

DecodeGtid == CanDecode /\ Decode("GtidEvent")
DecodeRotate == CanDecode /\ Decode("RotateEvent")
DecodeFormatDescription == CanDecode /\ Decode("FormatDescriptionEvent")
DecodeStop == CanDecode /\ Decode("StopEvent")
DecodeXid == CanDecode /\ Decode("XidEvent")
DecodeQuery == CanDecode /\ Decode("QueryEvent")
DecodeNotImplemented == CanDecode /\ Decode("NotImplementedEvent")

Dump ==
    \E i \in 1..Len(events) :
      LET r == dump(events[i], packet)
      IN /\ events' = [events EXCEPT ![i] = r.ev]
         /\ last' = [op |-> "dump", cls |-> events[i].cls,
                     event_size |-> events[i].event_size,
                     start |-> packet.read_bytes,
                     status |-> IF r.ok THEN "ok" ELSE r.err,
                     log |-> <<>>, idx |-> i,
                     again |-> (last.op = "dump" /\ last.idx = i),
                     result |-> r.h]
         /\ UNCHANGED <<packet, kwargs, decodes>>

Next ==
    \/ DecodeGtid
    \/ DecodeRotate
    \/ DecodeFormatDescription
    \/ DecodeStop
    \/ DecodeXid
    \/ DecodeQuery
    \/ DecodeNotImplemented
    \/ Dump

Spec == Init /\ [][Next]_vars

(***************************************************************************)
(* Properties.                                                             *)
(***************************************************************************)
Decoded(cls) == last.op = "decode" /\ last.cls = cls
DecodedOk(cls) == Decoded(cls) /\ last.status = "ok"

\* the bytes of the buffer at offsets from+1 .. from+n past the start of the
\* last constructor call's payload
Payload(from, n) ==
    SubSeq(packet.data, last.start + from + 1, last.start + from + n)

\* the bytes the buffer held from the start of the last call's payload
Available == Len(packet.data) - last.start

CallAt(op, size, at) == [op |-> op, size |-> size, at |-> last.start + at]

\* the length fields of a QueryEvent payload at the last call's start
L_schema == packet.data[last.start + 9]
L_status == packet.data[last.start + 12] + 256 * packet.data[last.start + 13]

\* C1: a successful decode leaves the cursor advanced by exactly event_size
\* bytes from where the payload started, for every class and event_size.
C1_CursorAdvancesByEventSize ==
    (last.op = "decode" /\ last.status = "ok")
        => packet.read_bytes = last.start + last.event_size

\* C2: a QueryEvent payload with 13 + L_status + L_schema + 1 > event_size
\* fails with MalformedPayload and no cursor call with a negative length is
\* issued.  (The payload holds its header, status, schema and padding bytes,
\* and the caller passed only_schemas.)
C2_NegativeLengthIsMalformed ==
    (/\ Decoded("QueryEvent")
     /\ "only_schemas" \in DOMAIN kwargs
     /\ Available >= 13
     /\ Available >= 14 + L_status + L_schema
     /\ 14 + L_status + L_schema > last.event_size)
        => /\ last.status = "MalformedPayload"
           /\ \A i \in 1..Len(last.log) : last.log[i].size >= 0

\* C3: a dump that directly follows a dump of the same event ends the same
\* way, returns the same mapping and leaves every field of every event as
\* it was.
C3_DumpIdempotent ==
    [][(last.op = "dump" /\ last'.op = "dump" /\ last'.idx = last.idx)
          => /\ last'.status = last.status
             /\ last'.result = last.result
             /\ events' = events]_vars

C3_Witness ==
    /\ last.op = "dump" /\ last.again /\ last.status = "ok"
    /\ last.cls = "QueryEvent"
    /\ last.result["schema"] = UnicodeVal(SchemaTest)

\* C4: dump never fails because of a text-decode failure.
C4_DumpNeverFailsOnText ==
    last.op = "dump" => last.status # "UnicodeDecodeError"

\* C5: the mapping an event's dump returns is the one fixed when its own
\* decode ended: a later successful constructor call on the same packet
\* cursor (the decode of the next event) does not change it.
C5_DumpFixedAfterDecode ==
    [][(last'.op = "decode" /\ last'.status = "ok")
          => \A i \in 1..Len(events) :
               dump(events[i], packet').h = dump(events[i], packet).h]_vars

\* C6: a GtidEvent is built by reading 1, 16 and 8 bytes in that order;
\* commit_flag is true exactly when the first byte is 1; gtid is the 16 sid
\* bytes in order as two lowercase hex digits each, grouped 4-2-2-2-6 bytes
\* with "-" between the groups, then ":" and the decimal gno.
HexValue(c) == IF c >= 48 /\ c <= 57 THEN c - 48
               ELSE IF c >= 97 /\ c <= 102 THEN c - 87
               ELSE 0 - 1

\* the positions of the hex pairs of the 16 bytes in the 8-4-4-4-12 shape
PairAt(i) ==
    2 * i - 1 + (IF i > 4 THEN 1 ELSE 0) + (IF i > 6 THEN 1 ELSE 0)
              + (IF i > 8 THEN 1 ELSE 0) + (IF i > 10 THEN 1 ELSE 0)

RECURSIVE DecimalMod(_, _, _)
DecimalMod(digits, acc, m) ==
    IF digits = <<>> THEN acc
    ELSE DecimalMod(Tail(digits), (acc * 10 + (digits[1] - 48)) % m, m)

\* the value of little-endian bytes modulo m
RECURSIVE BytesMod(_, _)
BytesMod(b, m) ==
    IF b = <<>> THEN 0 ELSE (b[1] + 256 * BytesMod(Tail(b), m)) % m

\* pairwise coprime, with a product above 10^20 > 2^64
Moduli == {999997, 999999, 1000000, 1000001}

GtidShape(g, sid, gnoBytes) ==
    LET digits == SubSeq(g, 38, Len(g))
    IN /\ Len(g) >= 38
       /\ g[9] = 45 /\ g[14] = 45 /\ g[19] = 45 /\ g[24] = 45
       /\ g[37] = 58
       /\ \A i \in 1..16 :
            /\ HexValue(g[PairAt(i)]) >= 0
            /\ HexValue(g[PairAt(i) + 1]) >= 0
            /\ 16 * HexValue(g[PairAt(i)]) + HexValue(g[PairAt(i) + 1])
                   = sid[i]
       /\ \A i \in 1..Len(digits) : digits[i] >= 48 /\ digits[i] <= 57
       /\ Len(digits) <= 20
       /\ (Len(digits) > 1 => digits[1] # 48)
       /\ \A m \in Moduli : DecimalMod(digits, 0, m) = BytesMod(gnoBytes, m)

RotateReads ==
    /\ last.log = <<CallAt("read", 8, 0),
                    CallAt("read", last.event_size - 8, 8)>>
    /\ last.status \in {"ok", "UnicodeDecodeError"}
    /\ 8 + (packet.read_bytes - (last.start + 8)) = last.event_size

EnvelopeKeys ==
    {"class", "timestamp", "log_pos", "event_size", "read_bytes", "flags"}

VariantKeys(cls) ==
    CASE cls = "GtidEvent" -> {"commit_flag", "gtid"}
      [] cls = "XidEvent" -> {"xid"}
      [] cls = "QueryEvent" -> {"schema", "execution_time", "query"}
      [] OTHER -> {}

C8_DumpKeys ==
    (last.op = "dump" /\ last.status = "ok") =>
        LET r == last.result
            ev == events[last.idx]
        IN IF last.cls = "RotateEvent"
           THEN DOMAIN r = {"class", "position", "next_binlog", "timestamp"}
           ELSE /\ DOMAIN r = EnvelopeKeys \cup VariantKeys(last.cls)
                /\ EnvelopeKeys \cap VariantKeys(last.cls) = {}
                /\ r["class"] = UnicodeVal(ClassName(last.cls))
                /\ r["timestamp"] = IntVal(ev.timestamp)
                /\ r["log_pos"] = IntVal(packet.log_pos)
                /\ r["event_size"] = IntVal(ev.event_size)
                /\ r["read_bytes"] = IntVal(packet.read_bytes)
                /\ r["flags"] = IntVal(packet.flags)

\* a RotateEvent's dump after the dump of a GtidEvent built before it
C8_Witness ==
    /\ last.op = "dump" /\ last.status = "ok" /\ last.cls = "RotateEvent"
    /\ Len(events) = 2
    /\ events[1].cls = "GtidEvent"
    /\ DOMAIN events[1].hashes = EnvelopeKeys \cup {"commit_flag", "gtid"}

\* C9: for a QueryEvent payload with 13 + L_status + L_schema + 1 <=
\* event_size the decoder reads 4, 4, 1, 2, 2, L_status and L_schema bytes,
\* skips 1 and reads event_size - 13 - L_status - L_schema - 1 bytes of
\* query: event_size bytes in all, schema and query being those ranges.
C9_QueryLayout ==
    (/\ Decoded("QueryEvent")
     /\ "only_schemas" \in DOMAIN kwargs
     /\ Available >= 13
     /\ 14 + L_status + L_schema <= last.event_size
     /\ Available >= last.event_size)
        => LET rest == last.event_size - 13 - L_status - L_schema - 1
               q == Utf8Decode(Payload(14 + L_status + L_schema, rest))
           IN /\ last.log =
                    <<CallAt("read_uint32", 4, 0), CallAt("read_uint32", 4, 4),
                      CallAt("read", 1, 8), CallAt("read_uint16", 2, 9),
                      CallAt("read_uint16", 2, 11),
                      CallAt("read", L_status, 13),
                      CallAt("read", L_schema, 13 + L_status),
                      CallAt("advance", 1, 13 + L_status + L_schema),
                      CallAt("read", rest, 14 + L_status + L_schema)>>
              /\ packet.read_bytes = last.start + last.event_size
              /\ last.status = (IF q.ok THEN "ok" ELSE "UnicodeDecodeError")
              /\ last.status = "ok" =>
                   LET ev == events[last.idx]
                   IN /\ ev.attrs["schema"] =
                             StrVal(Payload(13 + L_status, L_schema))
                      /\ ev.attrs["status_vars"] =
                             StrVal(Payload(13, L_status))
                      /\ ev.attrs["query"] = UnicodeVal(q.text)
                      /\ ev.attrs["execution_time"] =
                             LongVal(StripHigh(Payload(4, 4)))
                      /\ ev.attrs["slave_proxy_id"] =
                             LongVal(StripHigh(Payload(0, 4)))

\* schema "test", query "DROP TABLE t"
C9_Witness ==
    /\ DecodedOk("QueryEvent")
    /\ last.event_size = 30
    /\ events[last.idx].attrs["schema"] = StrVal(SchemaTest)
    /\ events[last.idx].attrs["query"] = UnicodeVal(DropTable)

\* C10: an XidEvent or QueryEvent built without only_schemas fails before
\* any byte is consumed; with only_schemas, its value changes neither the
\* decoded fields nor the bytes consumed; a GtidEvent, RotateEvent or
\* NotImplementedEvent is built without it as with it.
\* the packet as it was when the last constructor was called
PacketBefore == [packet EXCEPT !.read_bytes = last.start]

WithoutOnlySchemas(attrs) ==
    [key \in DOMAIN attrs \ {"__only_schemas"} |-> attrs[key]]

\* the last constructor call ended as the same call with keyword arguments
\* kw would have: same outcome, same cursor calls, same bytes consumed,
\* same decoded fields
SameAsWith(kw) ==
    LET r == Construct(last.cls, PacketBefore, last.event_size, kw)
    IN /\ last.status = (IF r.ok THEN "ok" ELSE r.err)
       /\ r.c.log = last.log
       /\ r.c.pkt = packet
       /\ r.ok =>
            /\ WithoutOnlySchemas(r.ev.attrs)
                 = WithoutOnlySchemas(events[last.idx].attrs)
            /\ [r.ev EXCEPT !.attrs = EmptyDict]
                 = [events[last.idx] EXCEPT !.attrs = EmptyDict]

C10_OnlySchemas ==
    /\ (last.op = "decode" /\ last.cls \in {"XidEvent", "QueryEvent"}
        /\ "only_schemas" \notin DOMAIN kwargs)
          => /\ last.status = "KeyError"
             /\ last.log = <<>>
             /\ packet.read_bytes = last.start
    /\ (last.op = "decode" /\ last.cls \in {"XidEvent", "QueryEvent"}
        /\ "only_schemas" \in DOMAIN kwargs)
          => /\ last.status # "KeyError"
             /\ \A v \in OnlySchemasValues : SameAsWith("only_schemas" :> v)
    /\ (last.op = "decode"
        /\ last.cls \in {"GtidEvent", "RotateEvent", "NotImplementedEvent"})
          => /\ last.status # "KeyError"
             /\ \A kw \in KwargsSet : SameAsWith(kw)

C10_Witness ==
    /\ Decoded("XidEvent")
    /\ "only_schemas" \notin DOMAIN kwargs
    /\ last.status = "KeyError"
    /\ Available >= 8
    /\ decodes = 2 /\ Len(events) = 1 /\ events[1].cls = "GtidEvent"

=============================================================================
